---- MODULE Spec2Model ----
(***************************************************************************)
(* EmployeeSchedule (src/src/scheduler.py): one schedule is fetched and    *)
(* processed at construction, then queried by four read-only operations.   *)
(*                                                                         *)
(* Strings are kept as strings in the state; Chars gives the characters of *)
(* each string the model uses, and the two strptime formats are modelled   *)
(* on those characters.  A clock time (datetime.time) is the pair          *)
(* <<hour, minute>>, ordered as Python orders it.                          *)
(***************************************************************************)
EXTENDS Integers, Sequences, FiniteSets

VARIABLES
    pc,        \* "new" before __init__ ran, "failed" if it raised; else "ready"
               \* between calls and "returned" while a call's outcome is held
    response,  \* the payload response.json() will give; consumed by __init__
    schedule,  \* self.schedule: date string -> work_hours, busy_slots
    result     \* the last call and its outcome (a return value or a raise)

vars == <<pc, response, schedule, result>>

----------------------------------------------------------------------------
(* Bounds of the model.                                                    *)

MaxDays == 2
MaxSlots == 2
MaxDuration == 3

----------------------------------------------------------------------------
(* Text.                                                                   *)

Chars(s) ==
    CASE s = "09:58" -> <<"0", "9", ":", "5", "8">>
      [] s = "09:59" -> <<"0", "9", ":", "5", "9">>
      [] s = "10:00" -> <<"1", "0", ":", "0", "0">>
      [] s = "10:01" -> <<"1", "0", ":", "0", "1">>
      [] s = "24:00" -> <<"2", "4", ":", "0", "0">>
      [] s = "9-00" -> <<"9", "-", "0", "0">>
      [] s = "2024-10-10" -> <<"2", "0", "2", "4", "-", "1", "0", "-", "1", "0">>
      [] s = "2024-10-11" -> <<"2", "0", "2", "4", "-", "1", "0", "-", "1", "1">>
      [] s = "2024/10/10" -> <<"2", "0", "2", "4", "/", "1", "0", "/", "1", "0">>

Digits == {"0", "1", "2", "3", "4", "5", "6", "7", "8", "9"}

DigitVal(c) ==
    CASE c = "0" -> 0 [] c = "1" -> 1 [] c = "2" -> 2 [] c = "3" -> 3
      [] c = "4" -> 4 [] c = "5" -> 5 [] c = "6" -> 6 [] c = "7" -> 7
      [] c = "8" -> 8 [] c = "9" -> 9

AllDigits(cs) == \A i \in 1..Len(cs) : cs[i] \in Digits

RECURSIVE NumVal(_)
NumVal(cs) ==
    IF cs = <<>> THEN 0
    ELSE 10 * NumVal(SubSeq(cs, 1, Len(cs) - 1)) + DigitVal(cs[Len(cs)])

\* The fields of cs between occurrences of sep.
RECURSIVE Split(_, _)
Split(cs, sep) ==
    IF \A i \in 1..Len(cs) : cs[i] # sep THEN <<cs>>
    ELSE LET k == CHOOSE i \in 1..Len(cs) :
                      cs[i] = sep /\ \A j \in 1..(i - 1) : cs[j] # sep
         IN  <<SubSeq(cs, 1, k - 1)>> \o Split(SubSeq(cs, k + 1, Len(cs)), sep)

\* A numeric strptime field (%H, %M, %m, %d): one or two digits, lo..hi.
IsField(f, lo, hi) ==
    /\ Len(f) \in {1, 2}
    /\ AllDigits(f)
    /\ NumVal(f) >= lo
    /\ NumVal(f) <= hi

----------------------------------------------------------------------------
(* Outcomes of a call.                                                     *)

None == [none |-> TRUE]
Return(v) == [kind |-> "return", value |-> v]
Raise(exc, msg) == [kind |-> "raise", exc |-> exc, msg |-> msg]
Raised(out) == out.kind = "raise"

----------------------------------------------------------------------------
(* Clock times.                                                            *)

\* Faulty variant of parse_time: the hour field admits 24.
parse_time_bad(time_str) ==
    LET f == Split(Chars(time_str), ":")
    IN  IF Len(f) = 2 /\ IsField(f[1], 0, 24) /\ IsField(f[2], 0, 59)
        THEN Return(<<NumVal(f[1]), NumVal(f[2])>>)
        ELSE Raise("ValueError", "does not match format")

\* datetime.strptime(time_str, "%H:%M").time(): ValueError unless the text
\* is an hour 0..23, a colon and a minute 0..59, each of one or two digits.
parse_time(time_str) ==
    LET f == Split(Chars(time_str), ":")
    IN  IF Len(f) = 2 /\ IsField(f[1], 0, 23) /\ IsField(f[2], 0, 59)
        THEN Return(<<NumVal(f[1]), NumVal(f[2])>>)
        ELSE Raise("ValueError", "does not match format")

\* time.__lt__, time.__le__: by hour, then minute.
TimeLT(a, b) == a[1] < b[1] \/ (a[1] = b[1] /\ a[2] < b[2])
TimeLE(a, b) == ~TimeLT(b, a)
\* max(a, b) and min(a, b) of Python: the first argument unless the second
\* is strictly greater (smaller).
TimeMax(a, b) == IF TimeLT(a, b) THEN b ELSE a
TimeMin(a, b) == IF TimeLT(b, a) THEN b ELSE a

\* datetime.combine(dummy_date, t): minutes since the dummy date's midnight.
Combine(t) == t[1] * 60 + t[2]

----------------------------------------------------------------------------
(* Dates.                                                                  *)

IsLeap(y) == (y % 4 = 0 /\ y % 100 # 0) \/ y % 400 = 0

DaysInMonth(y, m) ==
    IF m = 2 THEN (IF IsLeap(y) THEN 29 ELSE 28)
    ELSE IF m \in {4, 6, 9, 11} THEN 30 ELSE 31

\* datetime.strptime(date_str, "%Y-%m-%d") succeeds: four digits of year,
\* a month 1..12 and a day of that month, separated by "-".
ValidDate(date_str) ==
    LET f == Split(Chars(date_str), "-")
    IN  /\ Len(f) = 3
        /\ Len(f[1]) = 4 /\ AllDigits(f[1]) /\ NumVal(f[1]) >= 1
        /\ IsField(f[2], 1, 12)
        /\ IsField(f[3], 1, 31)
        /\ NumVal(f[3]) <= DaysInMonth(NumVal(f[1]), NumVal(f[2]))

----------------------------------------------------------------------------
(* Schedule ingestion: _fetch_and_process_data after the fetch.            *)

EmptyDict == [k \in {} |-> None]
Put(d, k, v) == [x \in (DOMAIN d) \cup {k} |-> IF x = k THEN v ELSE d[x]]

\* {day["id"]: day for day in days}: the value is the last record of an id.
days_by_id(days) ==
    [k \in {days[i].id : i \in 1..Len(days)} |->
        days[CHOOSE i \in 1..Len(days) :
                 days[i].id = k /\ \A j \in (i + 1)..Len(days) : days[j].id # k]]

\* The iteration order of that dict: ids by their first occurrence.
RECURSIVE KeyOrder(_)
KeyOrder(days) ==
    IF days = <<>> THEN <<>>
    ELSE LET n == Len(days)
             front == SubSeq(days, 1, n - 1)
         IN  IF \E i \in 1..(n - 1) : days[i].id = days[n].id
             THEN KeyOrder(front)
             ELSE Append(KeyOrder(front), days[n].id)

\* for day_id, day_info in days_by_id.items(): processed_schedule[date] = ...
RECURSIVE DaysLoop(_, _, _)
DaysLoop(keys, byId, processed) ==
    IF keys = <<>> THEN Return(processed)
    ELSE LET day_info == byId[Head(keys)]
             s == parse_time(day_info.start)
             e == parse_time(day_info.end)
         IN  IF Raised(s) THEN s
             ELSE IF Raised(e) THEN e
             ELSE DaysLoop(Tail(keys), byId,
                           Put(processed, day_info.date,
                               [work_hours |-> <<s.value, e.value>>,
                                busy_slots |-> <<>>]))

\* for slot in timeslots: if day_id in days_by_id: ...append(busy_slot)
RECURSIVE SlotsLoop(_, _, _)
SlotsLoop(slots, byId, processed) ==
    IF slots = <<>> THEN Return(processed)
    ELSE LET slot == Head(slots)
         IN  IF slot.day_id \in DOMAIN byId
             THEN LET date_str == byId[slot.day_id].date
                      s == parse_time(slot.start)
                      e == parse_time(slot.end)
                  IN  IF Raised(s) THEN s
                      ELSE IF Raised(e) THEN e
                      ELSE SlotsLoop(Tail(slots), byId,
                               [processed EXCEPT ![date_str].busy_slots =
                                   Append(@, <<s.value, e.value>>)])
             ELSE SlotsLoop(Tail(slots), byId, processed)

\* Faulty variant of SortByStart: the list is left in arrival order.
SortByStartNoSort(xs) == xs

\* list.sort(key=lambda x: x[0]): ascending by start, stable.
RECURSIVE SortByStart(_)
SortByStart(xs) ==
    IF xs = <<>> THEN <<>>
    ELSE LET n == Len(xs)
             sorted == SortByStart(SubSeq(xs, 1, n - 1))
             k == Cardinality({i \in 1..(n - 1) : ~TimeLT(xs[n][1], sorted[i][1])})
         IN  SubSeq(sorted, 1, k) \o <<xs[n]>> \o SubSeq(sorted, k + 1, n - 1)

fetch_and_process_data(data) ==
    LET byId == days_by_id(data.days)
        afterDays == DaysLoop(KeyOrder(data.days), byId, EmptyDict)
    IN  IF Raised(afterDays) THEN afterDays
        ELSE LET afterSlots == SlotsLoop(data.timeslots, byId, afterDays.value)
             IN  IF Raised(afterSlots) THEN afterSlots
                 ELSE Return([d \in DOMAIN afterSlots.value |->
                                 [afterSlots.value[d] EXCEPT
                                     !.busy_slots = SortByStart(@)]])

----------------------------------------------------------------------------
(* Availability engine.                                                    *)

\* Faulty variant of get_day_schedule: the date string is not validated.
get_day_schedule_unchecked(sched, date_str) ==
    Return(IF date_str \in DOMAIN sched THEN sched[date_str] ELSE None)

get_day_schedule(sched, date_str) ==
    IF ~ValidDate(date_str) THEN Raise("ValueError", "Invalid date format")
    ELSE Return(IF date_str \in DOMAIN sched THEN sched[date_str] ELSE None)

\* Faulty variant of get_busy_slots: an absent date is a KeyError.
get_busy_slots_strict(sched, date_str) ==
    LET day_schedule == get_day_schedule(sched, date_str)
    IN  IF Raised(day_schedule) THEN day_schedule
        ELSE IF day_schedule.value = None THEN Raise("KeyError", date_str)
        ELSE Return(day_schedule.value.busy_slots)

get_busy_slots(sched, date_str) ==
    LET day_schedule == get_day_schedule(sched, date_str)
    IN  IF Raised(day_schedule) THEN day_schedule
        ELSE IF day_schedule.value = None THEN Return(<<>>)
        ELSE Return(day_schedule.value.busy_slots)

\* for busy_start, busy_end in busy_slots: ... ; gives the final
\* current_time and the free slots emitted so far.
RECURSIVE Sweep(_, _, _)
Sweep(busy_slots, current_time, free_slots) ==
    IF busy_slots = <<>> THEN <<current_time, free_slots>>
    ELSE LET busy_start == Head(busy_slots)[1]
             busy_end == Head(busy_slots)[2]
         IN  Sweep(Tail(busy_slots),
                   TimeMax(current_time, busy_end),
                   IF TimeLT(current_time, busy_start)
                   THEN Append(free_slots, <<current_time, busy_start>>)
                   ELSE free_slots)

\* Faulty variant of FreeOfDay: the gap after the last busy slot is lost.
FreeOfDayNoTail(day_schedule) ==
    Sweep(day_schedule.busy_slots, day_schedule.work_hours[1], <<>>)[2]

\* get_free_slots, lines 74-88: the sweep over one day's schedule.
FreeOfDay(day_schedule) ==
    LET work_end == day_schedule.work_hours[2]
        swept == Sweep(day_schedule.busy_slots, day_schedule.work_hours[1], <<>>)
    IN  IF TimeLT(swept[1], work_end)
        THEN Append(swept[2], <<swept[1], work_end>>)
        ELSE swept[2]

get_free_slots(sched, date_str) ==
    LET day_schedule == get_day_schedule(sched, date_str)
    IN  IF Raised(day_schedule) THEN day_schedule
        ELSE IF day_schedule.value = None THEN Return(<<>>)
        ELSE Return(FreeOfDay(day_schedule.value))

\* Faulty variant of Overlaps: touching intervals count as overlapping.
OverlapsClosed(check_start, check_end, busy_start, busy_end) ==
    TimeLE(TimeMax(check_start, busy_start), TimeMin(check_end, busy_end))

\* max(check_start, busy_start) < min(check_end, busy_end)
Overlaps(check_start, check_end, busy_start, busy_end) ==
    TimeLT(TimeMax(check_start, busy_start), TimeMin(check_end, busy_end))

\* for busy_start, busy_end in busy_slots: if overlap: return False
RECURSIVE BusyLoop(_, _, _)
BusyLoop(busy_slots, check_start, check_end) ==
    IF busy_slots = <<>> THEN TRUE
    ELSE IF Overlaps(check_start, check_end,
                     Head(busy_slots)[1], Head(busy_slots)[2])
         THEN FALSE
         ELSE BusyLoop(Tail(busy_slots), check_start, check_end)

is_slot_available(sched, date_str, start_str, end_str) ==
    LET check_start == parse_time(start_str)
        check_end == parse_time(end_str)
    IN  IF Raised(check_start) \/ Raised(check_end)
        THEN Raise("ValueError", "Invalid time format")
        ELSE IF ~TimeLT(check_start.value, check_end.value)
        THEN Raise("ValueError", "Start time must be earlier than end time")
        ELSE LET day_schedule == get_day_schedule(sched, date_str)
             IN  IF Raised(day_schedule) THEN day_schedule
                 ELSE IF day_schedule.value = None THEN Return(FALSE)
                 ELSE LET work_hours == day_schedule.value.work_hours
                      IN  IF ~(/\ TimeLE(work_hours[1], check_start.value)
                               /\ TimeLE(check_end.value, work_hours[2]))
                          THEN Return(FALSE)
                          ELSE Return(BusyLoop(day_schedule.value.busy_slots,
                                               check_start.value,
                                               check_end.value))

\* free_duration >= required_duration, both in minutes.
LongEnough(slot, duration_minutes) ==
    Combine(slot[2]) - Combine(slot[1]) >= duration_minutes

Suitable(free_slots, duration_minutes) ==
    SelectSeq(free_slots, LAMBDA slot : LongEnough(slot, duration_minutes))

\* The loop visits every date of the schedule and the dates do not
\* interact, so the result is given per date; a raise of get_free_slots on
\* any date ends the call.  The result is the dict as a mapping.
find_available_slots_for_duration(sched, duration_minutes) ==
    IF duration_minutes <= 0
    THEN Raise("ValueError", "Duration must be a positive number")
    ELSE IF \E d \in DOMAIN sched : Raised(get_free_slots(sched, d))
    THEN Raise("ValueError", "Invalid date format")
    ELSE Return([d \in {x \in DOMAIN sched :
                           Suitable(get_free_slots(sched, x).value,
                                    duration_minutes) # <<>>} |->
                    Suitable(get_free_slots(sched, d).value, duration_minutes)])

----------------------------------------------------------------------------
(* The payloads the source may serve and the arguments callers may pass.   *)

SeqsUpTo(S, n) == UNION {[1..k -> S] : k \in 0..n}

ValidDates == {"2024-10-10", "2024-10-11"}
Dates == ValidDates \cup {"2024/10/10"}
ClockStrs == {"09:58", "09:59", "10:00", "10:01"}
QueryTimes == ClockStrs \cup {"9-00"}
Durations == (0 - 1)..MaxDuration

\* One day, every busy interval over four consecutive minutes that straddle
\* an hour: inside, outside and across the working hours, overlapping,
\* nested, empty and inverted; the working hours may be empty too.
SweepDays ==
    [id : {1}, date : {"2024-10-10"},
     start : {"09:58", "09:59"}, end : {"09:59", "10:01"}]
SweepSlots == [day_id : {1}, start : ClockStrs, end : ClockStrs]
SweepResponses ==
    {[days |-> <<d>>, timeslots |-> ts] :
        d \in SweepDays, ts \in SeqsUpTo(SweepSlots, MaxSlots)}

\* Several days: repeated ids, repeated dates, a malformed date, timeslots
\* of unknown days (id 3) and malformed clock times.
LookupDays ==
    [id : {1, 2}, date : Dates, start : {"09:58"}, end : {"10:01"}]
        \cup {[id |-> 1, date |-> "2024-10-10", start |-> "9-00", end |-> "10:01"]}
LookupSlots ==
    [day_id : {1, 2, 3}, start : {"09:59"}, end : {"10:00"}]
        \cup [day_id : {1, 3}, start : {"24:00"}, end : {"10:00"}]
LookupResponses ==
    {[days |-> ds, timeslots |-> ts] :
        ds \in SeqsUpTo(LookupDays, MaxDays), ts \in SeqsUpTo(LookupSlots, MaxSlots)}

Responses == SweepResponses \cup LookupResponses

----------------------------------------------------------------------------
(* The program.                                                            *)

Init ==
    /\ pc = "new"
    /\ response \in Responses
    /\ schedule = None
    /\ result = [op |-> "none"]

\* EmployeeSchedule(url), the fetch succeeding: the payload is processed;
\* a raise leaves no object behind.
Construct ==
    /\ pc = "new"
    /\ LET out == fetch_and_process_data(response)
       IN  IF Raised(out)
           THEN /\ pc' = "failed"
                /\ schedule' = schedule
                /\ result' = [op |-> "__init__", out |-> out]
           ELSE /\ pc' = "ready"
                /\ schedule' = out.value
                /\ result' = [op |-> "__init__", out |-> Return(None)]
    /\ response' = None

\* EmployeeSchedule(url), the fetch failing: requests raises, or the body
\* is not JSON; the exception is printed and raised again.
FetchFails ==
    /\ pc = "new"
    /\ \E exc \in {"RequestException", "JSONDecodeError"} :
           result' = [op |-> "__init__", out |-> Raise(exc, "Fetch or process error")]
    /\ pc' = "failed"
    /\ response' = None
    /\ UNCHANGED schedule

GetBusySlots(date_str) ==
    /\ pc = "ready"
    /\ result' = [op |-> "get_busy_slots", date |-> date_str,
                  out |-> get_busy_slots(schedule, date_str)]
    /\ pc' = "returned"
    /\ UNCHANGED <<response, schedule>>

GetFreeSlots(date_str) ==
    /\ pc = "ready"
    /\ result' = [op |-> "get_free_slots", date |-> date_str,
                  out |-> get_free_slots(schedule, date_str)]
    /\ pc' = "returned"
    /\ UNCHANGED <<response, schedule>>

IsSlotAvailable(date_str, start_str, end_str) ==
    /\ pc = "ready"
    /\ result' = [op |-> "is_slot_available", date |-> date_str,
                  start |-> start_str, end |-> end_str,
                  out |-> is_slot_available(schedule, date_str, start_str, end_str)]
    /\ pc' = "returned"
    /\ UNCHANGED <<response, schedule>>

FindAvailableSlotsForDuration(duration_minutes) ==
    /\ pc = "ready"
    /\ result' = [op |-> "find_available_slots_for_duration",
                  duration |-> duration_minutes,
                  out |-> find_available_slots_for_duration(schedule, duration_minutes)]
    /\ pc' = "returned"
    /\ UNCHANGED <<response, schedule>>

\* The caller has taken the outcome; the object waits for the next call.
Resume ==
    /\ pc = "returned"
    /\ pc' = "ready"
    /\ result' = [op |-> "none"]
    /\ UNCHANGED <<response, schedule>>

Next ==
    \/ Construct
    \/ FetchFails
    \/ \E d \in Dates : GetBusySlots(d)
    \/ \E d \in Dates : GetFreeSlots(d)
    \/ \E d \in Dates, s \in QueryTimes, e \in QueryTimes : IsSlotAvailable(d, s, e)
    \/ \E n \in Durations : FindAvailableSlotsForDuration(n)
    \/ Resume

Spec == Init /\ [][Next]_vars

----------------------------------------------------------------------------
(* Vocabulary of the properties.                                           *)

\* Every clock time a schedule of the model can mention.  The intervals are
\* half-open and all their ends are among these, so an interval holds some
\* clock time exactly when it holds one of these.
Instants == {<<9, 58>>, <<9, 59>>, <<10, 0>>, <<10, 1>>}
WellFormedClock(s) == s \in ClockStrs
WellFormedDate(s) == s \in ValidDates

InSlot(t, slot) == TimeLE(slot[1], t) /\ TimeLT(t, slot[2])
Cover(t, slots) == Cardinality({i \in 1..Len(slots) : InSlot(t, slots[i])})
Count(x, xs) == Cardinality({i \in 1..Len(xs) : xs[i] = x})

Returned(op) == result.op = op /\ result.out.kind = "return"

\* The last call was get_free_slots and returned, for a date of the model.
FreeReturned == Returned("get_free_slots") /\ result.date \in DOMAIN schedule
FreeDay == schedule[result.date]
FreeBusy == get_busy_slots(schedule, result.date).value

PairwiseDisjoint(slots) ==
    \A i, j \in 1..Len(slots) :
        i # j => ~\E t \in Instants : InSlot(t, slots[i]) /\ InSlot(t, slots[j])

InsideHours(slots, work_hours) ==
    \A i \in 1..Len(slots) :
        /\ TimeLE(work_hours[1], slots[i][1])
        /\ TimeLE(slots[i][1], slots[i][2])
        /\ TimeLE(slots[i][2], work_hours[2])

Tiles(free, busy, work_hours) ==
    \A t \in Instants :
        Cover(t, free) + Cover(t, busy) = (IF InSlot(t, work_hours) THEN 1 ELSE 0)

----------------------------------------------------------------------------
(* C1: free and busy slots tile the working hours.                         *)

\* C1 as stated: whenever the busy slots of a date are pairwise disjoint,
\* every clock time of the working hours lies in exactly one free or busy
\* slot and no free or busy slot covers a time outside the working hours.
C1_TilesWhenDisjoint ==
    (FreeReturned /\ PairwiseDisjoint(FreeBusy))
        => Tiles(result.out.value, FreeBusy, FreeDay.work_hours)

\* C1 as amended: the same, for busy slots that are pairwise disjoint and
\* each an interval (start <= end) inside the working hours.
C1_TilesWhenDisjointInside ==
    (/\ FreeReturned
     /\ PairwiseDisjoint(FreeBusy)
     /\ InsideHours(FreeBusy, FreeDay.work_hours))
        => Tiles(result.out.value, FreeBusy, FreeDay.work_hours)

\* A busy slot strictly inside the working hours, a free slot on each side.
C1_Witness ==
    /\ FreeReturned
    /\ PairwiseDisjoint(FreeBusy)
    /\ InsideHours(FreeBusy, FreeDay.work_hours)
    /\ Len(FreeBusy) >= 1
    /\ Len(result.out.value) = 2

----------------------------------------------------------------------------
(* C2: is_slot_available is containment in the working hours and no        *)
(* overlap with a busy slot.                                               *)

AvailReturned == Returned("is_slot_available") /\ result.date \in DOMAIN schedule
AvailStart == parse_time(result.start).value
AvailEnd == parse_time(result.end).value
AvailDay == schedule[result.date]

\* C2: for a date of the model and times start < end, the answer is true
\* exactly when the request lies inside the working hours and no busy slot
\* has max(start, bStart) < min(end, bEnd); equivalently, no clock time lies
\* both in the request and in a busy slot, so touching a busy slot's
\* boundary is no overlap.
C2_AvailableIffInsideAndClear ==
    AvailReturned =>
        /\ result.out.value =
              (/\ TimeLE(AvailDay.work_hours[1], AvailStart)
               /\ TimeLE(AvailEnd, AvailDay.work_hours[2])
               /\ \A i \in 1..Len(AvailDay.busy_slots) :
                      ~TimeLT(TimeMax(AvailStart, AvailDay.busy_slots[i][1]),
                              TimeMin(AvailEnd, AvailDay.busy_slots[i][2])))
        /\ result.out.value =
              (/\ TimeLE(AvailDay.work_hours[1], AvailStart)
               /\ TimeLE(AvailEnd, AvailDay.work_hours[2])
               /\ \A i \in 1..Len(AvailDay.busy_slots) :
                      ~\E t \in Instants :
                          /\ InSlot(t, <<AvailStart, AvailEnd>>)
                          /\ InSlot(t, AvailDay.busy_slots[i]))

\* An available request that ends where a busy slot starts.
C2_Witness ==
    /\ AvailReturned
    /\ result.out.value = TRUE
    /\ \E i \in 1..Len(AvailDay.busy_slots) :
           /\ AvailDay.busy_slots[i][1] = AvailEnd
           /\ TimeLT(AvailDay.busy_slots[i][1], AvailDay.busy_slots[i][2])

----------------------------------------------------------------------------
(* C3: the search for slots of a duration.                                 *)

\* C3: for every positive duration the call returns a mapping whose keys
\* are exactly the dates with a free slot of at least that many minutes,
\* each mapped to those free slots in the order get_free_slots gives them,
\* and never to an empty list.
C3_DurationSearchReturnsQualifying ==
    (result.op = "find_available_slots_for_duration" /\ result.duration > 0) =>
        /\ result.out.kind = "return"
        /\ DOMAIN result.out.value =
              {d \in DOMAIN schedule :
                  \E i \in 1..Len(get_free_slots(schedule, d).value) :
                      LET slot == get_free_slots(schedule, d).value[i]
                      IN  Combine(slot[2]) - Combine(slot[1]) >= result.duration}
        /\ \A d \in DOMAIN result.out.value :
              /\ result.out.value[d] # <<>>
              /\ result.out.value[d] =
                    SelectSeq(get_free_slots(schedule, d).value,
                              LAMBDA slot :
                                  Combine(slot[2]) - Combine(slot[1]) >= result.duration)

----------------------------------------------------------------------------
(* C4: the free slots are ordered, non-empty and pairwise disjoint.        *)

\* C4: whatever the busy list, the free slots returned are ascending by
\* start, each has start < end, and each ends no later than the next starts.
C4_FreeSlotsOrderedDisjoint ==
    FreeReturned =>
        LET free == result.out.value
        IN  /\ \A i \in 1..Len(free) : TimeLT(free[i][1], free[i][2])
            /\ \A i \in 1..(Len(free) - 1) :
                   /\ TimeLE(free[i][1], free[i + 1][1])
                   /\ TimeLE(free[i][2], free[i + 1][1])

----------------------------------------------------------------------------
(* C5: when the date string is validated.                                  *)

DateOps == {"get_busy_slots", "get_free_slots", "is_slot_available"}
InvalidDateFormat == Raise("ValueError", "Invalid date format")
InvalidTimeFormat == Raise("ValueError", "Invalid time format")
InvalidRange == Raise("ValueError", "Start time must be earlier than end time")

\* The last call was is_slot_available with two clock times, start < end.
GoodRange ==
    /\ WellFormedClock(result.start)
    /\ WellFormedClock(result.end)
    /\ TimeLT(parse_time(result.start).value, parse_time(result.end).value)

\* C5 as stated: in the three operations that take a date, a malformed date
\* fails with the date-format error whatever the other arguments are.
C5_DateValidatedFirst ==
    (result.op \in DateOps /\ ~WellFormedDate(result.date))
        => result.out = InvalidDateFormat

\* C5 as amended: get_busy_slots and get_free_slots fail with the
\* date-format error on a malformed date, in the model or not;
\* is_slot_available does so once both times parse and start < end, and
\* fails with the time-format or the range error otherwise.
C5_DateValidatedAfterTimes ==
    (result.op \in DateOps /\ ~WellFormedDate(result.date)) =>
        IF result.op = "is_slot_available"
        THEN IF ~(WellFormedClock(result.start) /\ WellFormedClock(result.end))
             THEN result.out = InvalidTimeFormat
             ELSE IF ~GoodRange THEN result.out = InvalidRange
             ELSE result.out = InvalidDateFormat
        ELSE result.out = InvalidDateFormat

\* A malformed date that is a key of the schedule, asked with good times.
C5_Witness ==
    /\ result.op = "is_slot_available"
    /\ ~WellFormedDate(result.date)
    /\ result.date \in DOMAIN schedule
    /\ GoodRange
    /\ result.out = InvalidDateFormat

----------------------------------------------------------------------------
(* C6, C7: ingestion, as properties of the step that runs the constructor  *)
(* on a payload that was fetched.                                          *)

Processed ==
    /\ pc = "new"
    /\ pc' # "new"
    /\ ~(result'.out.kind = "raise" /\ result'.out.msg = "Fetch or process error")

FormatError == Raise("ValueError", "does not match format")

MalformedRecord(r) == ~WellFormedClock(r.start) \/ ~WellFormedClock(r.end)

\* Day record i is the one its id resolves to: no later record has the id.
Retained(days, i) == \A j \in (i + 1)..Len(days) : days[j].id # days[i].id
\* Timeslot record r names a day record.
Known(days, r) == \E j \in 1..Len(days) : days[j].id = r.day_id

AnyMalformed(data) ==
    \/ \E i \in 1..Len(data.days) : MalformedRecord(data.days[i])
    \/ \E i \in 1..Len(data.timeslots) : MalformedRecord(data.timeslots[i])

AnyMalformedUsed(data) ==
    \/ \E i \in 1..Len(data.days) :
           Retained(data.days, i) /\ MalformedRecord(data.days[i])
    \/ \E i \in 1..Len(data.timeslots) :
           Known(data.days, data.timeslots[i]) /\ MalformedRecord(data.timeslots[i])

ConstructionFailed == pc' = "failed" /\ result'.out = FormatError /\ schedule' = None

\* C6 as stated: a malformed clock time in any day or timeslot record makes
\* construction fail with the format error and leaves no model.
C6_AnyMalformedTimeFails ==
    [][(Processed /\ AnyMalformed(response)) => ConstructionFailed]_vars

\* C6 as amended: construction fails so exactly when the malformed time is
\* in a day record that is the last of its id or in a timeslot whose day_id
\* names a day record; elsewhere the record is skipped and a model is built.
C6_UsedMalformedTimeFails ==
    [][Processed =>
          IF AnyMalformedUsed(response) THEN ConstructionFailed
          ELSE pc' = "ready" /\ result'.out = Return(None)]_vars

C6_Witness == pc = "failed" /\ result.out = FormatError

\* The intervals of the timeslots of data whose day_id resolves to date d.
Resolved(data, d) ==
    {i \in 1..Len(data.timeslots) :
        \E j \in 1..Len(data.days) :
            /\ data.days[j].id = data.timeslots[i].day_id
            /\ Retained(data.days, j)
            /\ data.days[j].date = d}

IntervalOf(r) == <<parse_time(r.start).value, parse_time(r.end).value>>

\* C7: from a payload with well-formed times a model is built, unknown day
\* ids or not, and each date's busy list holds the intervals of exactly the
\* timeslots that resolve to the date, one entry each, ascending by start.
C7_BusyListsGroupedAndSorted ==
    [][(Processed /\ ~AnyMalformed(response)) =>
          /\ pc' = "ready"
          /\ \A d \in DOMAIN schedule' :
                LET busy == schedule'[d].busy_slots
                IN  /\ Len(busy) = Cardinality(Resolved(response, d))
                    /\ \A i \in Resolved(response, d) :
                           LET x == IntervalOf(response.timeslots[i])
                           IN  Count(x, busy) =
                                   Cardinality({k \in Resolved(response, d) :
                                       IntervalOf(response.timeslots[k]) = x})
                    /\ \A i \in 1..(Len(busy) - 1) :
                           TimeLE(busy[i][1], busy[i + 1][1])]_vars

\* A date whose busy list holds two slots of different starts.
C7_Witness ==
    /\ pc = "ready"
    /\ result.op = "__init__"
    /\ \E d \in DOMAIN schedule :
           /\ Len(schedule[d].busy_slots) = 2
           /\ TimeLT(schedule[d].busy_slots[1][1], schedule[d].busy_slots[2][1])

----------------------------------------------------------------------------
(* C8: a well-formed date that is not in the model.                        *)

\* C8: for such a date get_busy_slots and get_free_slots return the empty
\* list and is_slot_available, with times start < end, returns false.
C8_AbsentDateIsEmpty ==
    (/\ result.op \in DateOps
     /\ WellFormedDate(result.date)
     /\ result.date \notin DOMAIN schedule) =>
        IF result.op = "is_slot_available"
        THEN GoodRange => result.out = Return(FALSE)
        ELSE result.out = Return(<<>>)

C8_Witness ==
    /\ result.op = "get_busy_slots"
    /\ WellFormedDate(result.date)
    /\ result.date \notin DOMAIN schedule
    /\ DOMAIN schedule # {}
    /\ result.out = Return(<<>>)

----------------------------------------------------------------------------
(* C9, C10: free slots against the working hours and against               *)
(* is_slot_available.                                                      *)

\* C9: every free slot returned lies inside the date's working hours.
C9_FreeSlotsInsideWorkHours ==
    FreeReturned =>
        \A i \in 1..Len(result.out.value) :
            /\ TimeLE(FreeDay.work_hours[1], result.out.value[i][1])
            /\ TimeLE(result.out.value[i][2], FreeDay.work_hours[2])

\* C10: is_slot_available answers true exactly when some free slot of the
\* date contains the request.
C10_AvailableIffInsideFreeSlot ==
    AvailReturned =>
        result.out.value =
            (\E i \in 1..Len(get_free_slots(schedule, result.date).value) :
                LET slot == get_free_slots(schedule, result.date).value[i]
                IN  TimeLE(slot[1], AvailStart) /\ TimeLE(AvailEnd, slot[2]))

====
